---- MODULE Spec2Model ----
(***************************************************************************)
(* Chi design-system toolchain:                                            *)
(*   - scripts/build/css/build.js: the theme build runner                  *)
(*   - scripts/generate-css-custom-properties.ts: the token generator     *)
(*     (argument parsing, classification, stylesheet and JSON emission)    *)
(*     and the Popover component that follows it in the same file.         *)
(* Each part has its own specification; the variables of the other parts   *)
(* are pinned to their idle values.                                        *)
(***************************************************************************)
EXTENDS Integers, Sequences, FiniteSets, TLC

VARIABLES
  \* ---- build.js ----
  envThemes,      \* process.env.THEMES_TO_BUILD: [set, list] (list = its split(','))
  bPc,            \* "run" | "done" | "rejected" (buildAllThemes' promise)
  bIdx,           \* position in themes of the next theme to build
  distFiles,      \* css files present under dist/
  built,          \* positions whose vite build completed
  bLog,           \* spinner / console output, in order
  \* ---- token generation on drawn inputs ----
  globalFile,     \* declarations of _global-variables.scss
  themeFile,      \* declarations of the theme's _variables.scss
  layerArg,       \* [given, names]: the names of a --layers=<names> argument
  tPc,            \* "ready" | "done"
  output,         \* result of generateCssVariablesScss
  metadata,       \* result of generateTokenMetadata
  \* ---- the generator's main() ----
  argv,           \* process.argv.slice(2)
  env,            \* the file system and compiler main() runs against
  gPc,            \* "start" | "loop" | "finish" | "done" | "exited"
  exitCode,       \* status of process.exit, -1 while running
  config,         \* what parseArgs returned: themes, layers, jsonOnly, dryRun
  themeIdx,       \* position in config.themes of the next theme
  scssFiles,      \* themes/<theme>/css-variables.scss: [exists, content]
  jsonFiles,      \* dist/tokens/<theme>.json: [exists, content]
  allThemesFile,  \* dist/tokens/all-themes.json: [exists, content]
  docsCopies,     \* files copied to documentation repositories
  reads,          \* paths read
  writes,         \* paths written
  summaries,      \* rows of the summary table
  gLog,           \* console output, in order
  \* ---- Popover ----
  animate,        \* _config.animate
  shown,          \* _shown
  classes,        \* class list of _popoverElem
  ariaHidden,     \* aria-hidden attribute of _popoverElem
  style,          \* _popoverElem.style: position, left, top, transform, transition
  arrowStyle,     \* style of the arrow element: static side and clip path
  preAnimationTransformStyle,   \* _preAnimationTransformStyle
  postAnimationTransformStyle,  \* _postAnimationTransformStyle
  positions,      \* position computations in flight: [id, thenShow, transition]
  resolvedLog,    \* the computations that resolved, in order, with their results
  anims,          \* three-step animations in flight: [id, kind, step, transition]
  events,         \* events dispatched, in order
  lastActioned,   \* lastActioned (0 while undefined)
  now,            \* Date.now()
  calls           \* calls started so far (the constructor's computation is 1)

buildVars == <<envThemes, bPc, bIdx, distFiles, built, bLog>>

tokenVars == <<globalFile, themeFile, layerArg, tPc, output, metadata>>

mainVars == <<argv, env, gPc, exitCode, config, themeIdx, scssFiles, jsonFiles, allThemesFile,
              docsCopies, reads, writes, summaries, gLog>>

popVars == <<animate, shown, classes, ariaHidden, style, arrowStyle, preAnimationTransformStyle,
             postAnimationTransformStyle, positions, resolvedLog, anims, events, lastActioned,
             now, calls>>

vars == <<buildVars, tokenVars, mainVars, popVars>>

\* ---------------------------------------------------------------------------
\* Generic helpers
\* ---------------------------------------------------------------------------
Range(s) == {s[i] : i \in 1..Len(s)}

SeqsUpTo(S, n) == UNION {[1..k -> S] : k \in 0..n}

\* Idle value of the token-generation variables.
NoOutput == [scss |-> <<>>, foundationCount |-> 0, semanticCount |-> 0, totalCount |-> 0]

NoMetadata ==
  [theme |-> "", version |-> "",
   tokenCount |-> [foundation |-> 0, semantic |-> 0, component |-> 0, total |-> 0,
                   cssCustomProperties |-> 0],
   tokens |-> [foundation |-> <<>>, semantic |-> <<>>]]

TokenIdle ==
  /\ globalFile = <<>>
  /\ themeFile = <<>>
  /\ layerArg = [given |-> FALSE, names |-> <<>>]
  /\ tPc = "idle"
  /\ output = NoOutput
  /\ metadata = NoMetadata

\* Idle value of the variables of main().
NoFile == [exists |-> FALSE, content |-> <<>>]

NoConfig == [themes |-> <<>>, layers |-> <<>>, jsonOnly |-> FALSE, dryRun |-> FALSE]

NoEnv == [varsMissing |-> {}, sassFails |-> {}, oldOutputs |-> FALSE]

MainIdle ==
  /\ argv = <<>>
  /\ env = NoEnv
  /\ gPc = "idle"
  /\ exitCode = -1
  /\ config = NoConfig
  /\ themeIdx = 1
  /\ scssFiles = <<>>
  /\ jsonFiles = <<>>
  /\ allThemesFile = NoFile
  /\ docsCopies = {}
  /\ reads = {}
  /\ writes = {}
  /\ summaries = <<>>
  /\ gLog = <<>>

\* Idle value of the Popover's variables.
NoStyle == [position |-> "", left |-> "", top |-> "", transform |-> "", transition |-> ""]

NoArrowStyle == [static |-> "", clip |-> ""]

PopIdle ==
  /\ animate = FALSE
  /\ shown = FALSE
  /\ classes = {}
  /\ ariaHidden = ""
  /\ style = NoStyle
  /\ arrowStyle = NoArrowStyle
  /\ preAnimationTransformStyle = "null"
  /\ postAnimationTransformStyle = "null"
  /\ positions = {}
  /\ resolvedLog = <<>>
  /\ anims = {}
  /\ events = <<>>
  /\ lastActioned = 0
  /\ now = 0
  /\ calls = 0

\* ===========================================================================
\* build.js
\* ===========================================================================
allowedThemes == <<"lumen", "portal", "connect", "test", "colt", "brightspeed", "centurylink">>

\* Bound: longest THEMES_TO_BUILD list explored.
MaxBuildThemes == 3

\* Theme names offered in THEMES_TO_BUILD ("" is what ''.split(',') yields).
BuildThemeInputs == {"lumen", "portal", "bogus", ""}

\* const themes = process.env.THEMES_TO_BUILD?.split(',') || allowedThemes
themes == IF envThemes.set THEN envThemes.list ELSE allowedThemes

\* fileName of deleteCssFile
CssFileName(theme) == IF theme = "lumen" THEN <<"chi.css">> ELSE <<"chi-", theme, ".css">>

BuildInit ==
  /\ envThemes \in {[set |-> FALSE, list |-> <<>>]} \cup
                    {[set |-> TRUE, list |-> l] :
                       l \in SeqsUpTo(BuildThemeInputs, MaxBuildThemes) \ {<<>>}}
  /\ bPc = "run"
  /\ bIdx = 1
  /\ distFiles \in SUBSET {CssFileName(t) : t \in {"lumen", "portal"}}
  /\ built = {}
  /\ bLog = <<>>
  /\ TokenIdle
  /\ MainIdle
  /\ PopIdle

BuildIdle ==
  /\ envThemes = [set |-> FALSE, list |-> <<>>]
  /\ bPc = "idle"
  /\ bIdx = 1
  /\ distFiles = {}
  /\ built = {}
  /\ bLog = <<>>

BLine(kind, idx) == [kind |-> kind, idx |-> idx, theme |-> themes[idx]]

\* Mutant of BuildTheme: the catch block logs and swallows the error.
BuildThemeSwallow ==
  /\ bPc = "run"
  /\ bIdx <= Len(themes)
  /\ LET theme == themes[bIdx]
         file  == CssFileName(theme)
         start == Append(bLog, BLine("start", bIdx))
     IN IF theme \notin Range(allowedThemes)
        THEN /\ bLog' = Append(start, BLine("fail", bIdx))
             /\ UNCHANGED <<distFiles, built>>
        ELSE \E rmFails \in BOOLEAN, viteFails \in BOOLEAN :
               LET hasFile  == file \in distFiles
                   rmErr    == hasFile /\ rmFails
                   afterDel == IF rmErr THEN Append(start, BLine("error", bIdx)) ELSE start
                   afterRm  == IF hasFile /\ ~rmFails THEN distFiles \ {file} ELSE distFiles
               IN IF viteFails
                  THEN /\ bLog' = Append(afterDel, BLine("fail", bIdx))
                       /\ distFiles' = afterRm
                       /\ UNCHANGED built
                  ELSE /\ bLog' = Append(afterDel, BLine("succeed", bIdx))
                       /\ distFiles' = afterRm \cup {file}
                       /\ built' = built \cup {bIdx}
  /\ bIdx' = bIdx + 1
  /\ bPc' = "run"
  /\ UNCHANGED <<envThemes, tokenVars, mainVars, popVars>>

\* One iteration of buildAllThemes' loop: await buildTheme(theme), with
\* deleteCssFile inlined.  A throw inside the try is logged by spinner.fail
\* and rethrown, which rejects buildAllThemes' promise.
BuildTheme ==
  /\ bPc = "run"
  /\ bIdx <= Len(themes)
  /\ LET theme == themes[bIdx]
         file  == CssFileName(theme)
         start == Append(bLog, BLine("start", bIdx))
     IN IF theme \notin Range(allowedThemes)
        THEN \* deleteCssFile throws Invalid theme
             /\ bLog' = Append(start, BLine("fail", bIdx))
             /\ bPc' = "rejected"
             /\ UNCHANGED <<distFiles, built, bIdx>>
        ELSE \E rmFails \in BOOLEAN, viteFails \in BOOLEAN :
               LET hasFile  == file \in distFiles
                   rmErr    == hasFile /\ rmFails
                   afterDel == IF rmErr THEN Append(start, BLine("error", bIdx)) ELSE start
                   afterRm  == IF hasFile /\ ~rmFails THEN distFiles \ {file} ELSE distFiles
               IN IF viteFails
                  THEN /\ bLog' = Append(afterDel, BLine("fail", bIdx))
                       /\ distFiles' = afterRm
                       /\ bPc' = "rejected"
                       /\ UNCHANGED <<built, bIdx>>
                  ELSE /\ bLog' = Append(afterDel, BLine("succeed", bIdx))
                       /\ distFiles' = afterRm \cup {file}
                       /\ built' = built \cup {bIdx}
                       /\ bIdx' = bIdx + 1
                       /\ bPc' = "run"
  /\ UNCHANGED <<envThemes, tokenVars, mainVars, popVars>>

\* The for-of loop of buildAllThemes runs out of themes.
BuildAllThemesDone ==
  /\ bPc = "run"
  /\ bIdx > Len(themes)
  /\ bPc' = "done"
  /\ UNCHANGED <<envThemes, bIdx, distFiles, built, bLog, tokenVars, mainVars, popVars>>

BuildNext == BuildTheme \/ BuildAllThemesDone

SpecBuild == BuildInit /\ [][BuildNext]_vars

\* ---- C1 ----
BuildLogged(kind, i) == \E k \in 1..Len(bLog) : bLog[k].kind = kind /\ bLog[k].idx = i

\* C1 (as stated): when the compile step of one theme fails, the failure is
\* logged and the runner continues: once the runner has stopped, every theme
\* listed after a failing one has been built.
C1_ContinuesAfterFailure ==
  bPc \in {"done", "rejected"} =>
    \A i \in 1..Len(themes) :
      (BuildLogged("fail", i) /\ themes[i] \in Range(allowedThemes)) =>
        \A j \in (i+1)..Len(themes) : j \in built

\* C1 (amended): a failing theme is logged and the error is rethrown: the
\* runner's promise is rejected at that theme, no later theme is started or
\* built, and every theme listed before it was built.
C1_StopsAtFirstFailure ==
  \A i \in 1..Len(themes) :
    BuildLogged("fail", i) =>
      /\ bPc = "rejected"
      /\ bIdx = i
      /\ \A j \in (i+1)..Len(themes) : j \notin built /\ ~BuildLogged("start", j)
      /\ \A j \in 1..(i-1) : j \in built

\* A theme failed its build with at least one theme listed after it.
C1_Witness ==
  \E i \in 1..Len(themes) :
    /\ BuildLogged("fail", i)
    /\ i < Len(themes)
    /\ themes[i] \in Range(allowedThemes)

\* ===========================================================================
\* generate-css-custom-properties.ts: configuration and classification
\*
\* A variable name is the sequence of its '-'-separated segments
\* ("color-text-base" is <<"color", "text", "base">>), so that the prefix and
\* alternation patterns of the classifier can be evaluated on it.
\* ===========================================================================
THEMES == <<"lumen", "connect", "brightspeed", "centurylink", "colt", "portal">>

LAYERS == <<"foundation", "semantic">>

PREFIX == "chi"

HasPrefix(n, p) == Len(n) >= Len(p) /\ SubSeq(n, 1, Len(p)) = p

Rest(n, k) == SubSeq(n, k + 1, Len(n))

\* /^\$<p>-(<alts>)$/
PrefixAlt(n, p, alts) == HasPrefix(n, p) /\ Rest(n, Len(p)) \in alts

\* /^\$<p>-/  (anything, also nothing, may follow the hyphen)
PrefixDash(n, p) == HasPrefix(n, p) /\ Len(n) > Len(p)

\* Segments matching \d+ among the segments the model uses.
DigitSegments == {"0", "1", "5", "10", "20", "50", "80", "100"}

IsDigits(seg) == seg \in DigitSegments

Headings == {<<"h1">>, <<"h2">>, <<"h3">>, <<"h4">>, <<"h5">>, <<"h6">>}

ColorHues ==
  {<<"grey">>, <<"red">>, <<"pink">>, <<"purple">>, <<"indigo">>, <<"violet">>, <<"navy">>,
   <<"blue">>, <<"bright", "blue">>, <<"cyan">>, <<"teal">>, <<"teal", "blue">>, <<"mint">>,
   <<"green">>, <<"yellow">>, <<"orange">>}

FOUNDATION_PATTERNS(n) ==
  \/ PrefixAlt(n, <<"font", "family">>, {<<"base">>, <<"mono">>})
  \/ PrefixAlt(n, <<"font", "size">>,
               {<<"3xl">>, <<"2xl">>, <<"xl">>, <<"lg">>, <<"md">>, <<"sm">>, <<"xs">>,
                <<"2xs">>, <<"base">>} \cup Headings)
  \/ PrefixAlt(n, <<"font", "weight">>,
               {<<"light">>, <<"normal">>, <<"medium">>, <<"semi", "bold">>, <<"bold">>,
                <<"extra", "bold">>, <<"black">>, <<"base">>} \cup Headings)
  \/ PrefixAlt(n, <<"line", "height">>,
               {<<"base">>, <<"xl">>, <<"lg">>, <<"md">>, <<"sm">>} \cup Headings)
  \/ /\ HasPrefix(n, <<"color">>)
     /\ Len(n) >= 3
     /\ SubSeq(n, 2, Len(n) - 1) \in ColorHues
     /\ IsDigits(n[Len(n)])
  \/ PrefixAlt(n, <<"color">>, {<<"black">>, <<"white">>})
  \/ n = <<"base", "unit">>
  \/ Len(n) = 2 /\ n[1] = "opacity" /\ IsDigits(n[2])
  \/ PrefixAlt(n, <<"border", "radius">>,
               {<<"base">>, <<"sharp">>, <<"circle">>, <<"medium">>, <<"rounded", "pill">>})
  \/ n = <<"focus", "color">>
  \/ n = <<"link", "color">>
  \/ n = <<"link", "hover", "color">>
  \/ PrefixAlt(n, <<"icon", "size">>,
               {<<"base">>, <<"xs">>, <<"sm">>, <<"sm2">>, <<"sm3">>, <<"md">>, <<"lg">>,
                <<"xl">>, <<"xxl">>})
  \/ Len(n) = 2 /\ n[1] \in {"sm", "md", "lg", "xl", "xxl"} /\ n[2] = "breakpoint"
  \/ PrefixDash(n, <<"zindex">>)

\* Segments that start with the text "gradient".
GradientSegments == {"gradient", "gradients"}

SEMANTIC_PATTERNS(n) ==
  \/ PrefixDash(n, <<"color", "text">>)
  \/ PrefixDash(n, <<"color", "icon">>)
  \/ PrefixDash(n, <<"color", "border">>)
  \/ PrefixDash(n, <<"color", "background">>) /\ n[3] \notin GradientSegments

EXCLUDE_PATTERNS(n) ==
  n \in {<<"state", "colors">>, <<"color", "semantic">>, <<"screen", "sizes">>, <<"shadow">>,
         <<"cap", "height">>, <<"font", "family", "icon">>, <<"icon", "color">>}

\* Raw values: the text of the value, of which the classifier asks two things.
MapValue == "(a: b)"

GradientValue == "linear-gradient(red, blue)"

StartsWithParen(value) == value = MapValue

IncludesLinearGradient(value) == value = GradientValue

classifyToken(fullName, value) ==
  IF EXCLUDE_PATTERNS(fullName) THEN "excluded"
  ELSE IF StartsWithParen(value) \/ IncludesLinearGradient(value) THEN "excluded"
  ELSE IF FOUNDATION_PATTERNS(fullName) THEN "foundation"
  ELSE IF SEMANTIC_PATTERNS(fullName) THEN "semantic"
  ELSE "component"

\* A declaration of a variables file: `$name: value; // comment`
\* (comment <<>> when the line has none).
Decl(name, value, comment) == [name |-> name, value |-> value, comment |-> comment]

\* parseScssVariables, on a file given as its list of declarations.
parseScssVariables(file) ==
  [i \in 1..Len(file) |->
     [name     |-> file[i].name,
      rawValue |-> file[i].value,
      comment  |-> file[i].comment,
      line     |-> i,
      layer    |-> classifyToken(file[i].name, file[i].value)]]

\* `--${PREFIX}-${scssName}`, in segments
toCssCustomProp(scssName) == <<"", "", PREFIX>> \o scssName

\* `#{$${scssVarName}}`
toScssInterpolation(scssVarName) == <<"#{$">> \o scssVarName \o <<"}">>

\* ---------------------------------------------------------------------------
\* Synthetic tokens.  Expressions and comments are sequences of text pieces.
\* ---------------------------------------------------------------------------
Syn(name, expr, comment, type, category) ==
  [name |-> name, scssExpression |-> expr, comment |-> comment,
   type |-> type, category |-> category]

ShadowComments ==
  <<"Elevation 1 - subtle", "Elevation 2 - card", "Elevation 3 - dropdown",
    "Elevation 4 - modal", "Elevation 5 - max elevation">>

SYNTHETIC_SHADOW_TOKENS ==
  <<Syn(<<"shadow", "0">>, <<"none">>, <<"No shadow">>, "shadow", "elevation")>> \o
  [k \in 1..5 |->
     Syn(<<"shadow", ToString(k)>>, <<"map-get(", "$shadow, ", ToString(k), ")">>,
         <<ShadowComments[k]>>, "shadow", "elevation")]

\* rem values are kept in hundredths of a rem (0.25rem is 25).
FromTo(first, last, step) ==
  [k \in 1..((last - first) \div step + 1) |-> first + (k - 1) * step]

\* The decimal text JavaScript prints for h/100.
RemText(h) ==
  IF h % 100 = 0 THEN <<ToString(h \div 100)>>
  ELSE IF h % 10 = 0 THEN <<ToString(h \div 100), ".", ToString((h % 100) \div 10)>>
  ELSE <<ToString(h \div 100), ".", ToString(h % 100)>>

\* The steps of buildSpacingScale: 0, then 0.25rem increments up to 3rem, 0.5rem
\* increments from 3.5 to 4, 1rem increments from 5 to 24.
SpacingSteps ==
  <<0>> \o FromTo(25, 300, 25) \o FromTo(350, 400, 50) \o FromTo(500, 2400, 100)

SpacingToken(i, rem) ==
  LET value       == IF rem = 0 THEN <<"0">> ELSE RemText(rem) \o <<"rem">>
      px          == (rem * 16) \div 100
      aligned     == rem % 50 = 0
      chiSpaceIdx == rem \div 50
      spaceNote   == IF aligned /\ chiSpaceIdx >= 0 /\ chiSpaceIdx <= 10
                     THEN <<" - Chi space(", ToString(chiSpaceIdx), ")">>
                     ELSE <<>>
  IN Syn(<<"spacing", ToString(i)>>, value,
         value \o (IF rem > 0 THEN <<" (", ToString(px), "px)">> ELSE <<>>) \o spaceNote,
         "spacing", "spacing")

buildSpacingScale == [k \in 1..Len(SpacingSteps) |-> SpacingToken(k - 1, SpacingSteps[k])]

SYNTHETIC_SPACING_TOKENS == buildSpacingScale

SYNTHETIC_BORDER_WIDTH_TOKENS ==
  <<Syn(<<"border", "width", "0">>, <<"0">>, <<"0 (0px)">>, "borderWidth", "border-width"),
    Syn(<<"border", "width", "1">>, <<"0.0625rem">>, <<"0.0625rem (1px) - standard">>,
        "borderWidth", "border-width"),
    Syn(<<"border", "width", "2">>, <<"0.125rem">>, <<"0.125rem (2px) - active/emphasis">>,
        "borderWidth", "border-width"),
    Syn(<<"border", "width", "3">>, <<"0.1875rem">>, <<"0.1875rem (3px) - heavy (Lumen buttons)">>,
        "borderWidth", "border-width"),
    Syn(<<"border", "width", "4">>, <<"0.25rem">>, <<"0.25rem (4px) - max">>,
        "borderWidth", "border-width")>>

SYNTHETIC_DURATION_TOKENS ==
  <<Syn(<<"duration", "fastest">>, <<"0.075s">>, <<"0.075s (75ms)">>, "duration", "motion"),
    Syn(<<"duration", "faster">>, <<"0.1s">>, <<"0.1s (100ms)">>, "duration", "motion"),
    Syn(<<"duration", "fast">>, <<"0.15s">>, <<"0.15s (150ms)">>, "duration", "motion"),
    Syn(<<"duration", "normal">>, <<"0.2s">>, <<"0.2s (200ms)">>, "duration", "motion"),
    Syn(<<"duration", "slow">>, <<"0.3s">>, <<"0.3s (300ms)">>, "duration", "motion"),
    Syn(<<"duration", "slower">>, <<"0.4s">>, <<"0.4s (400ms)">>, "duration", "motion"),
    Syn(<<"duration", "slowest">>, <<"0.5s">>, <<"0.5s (500ms)">>, "duration", "motion"),
    Syn(<<"duration", "skeleton">>, <<"2s">>, <<"2s (2000ms)">>, "duration", "motion")>>

SYNTHETIC_EASING_TOKENS ==
  <<Syn(<<"ease">>, <<"ease">>, <<"Ease">>, "easing", "motion"),
    Syn(<<"ease", "in">>, <<"ease-in">>, <<"Ease-in">>, "easing", "motion"),
    Syn(<<"ease", "out">>, <<"ease-out">>, <<"Ease-out">>, "easing", "motion"),
    Syn(<<"ease", "in", "out">>, <<"ease-in-out">>, <<"Ease-in-out">>, "easing", "motion"),
    Syn(<<"ease", "bounce">>, <<"cubic-bezier(1, 0.38, 0, 1.19)">>, <<"Bounce">>,
        "easing", "motion")>>

ALL_SYNTHETIC_TOKENS ==
  <<SYNTHETIC_SHADOW_TOKENS, SYNTHETIC_SPACING_TOKENS, SYNTHETIC_BORDER_WIDTH_TOKENS,
    SYNTHETIC_DURATION_TOKENS, SYNTHETIC_EASING_TOKENS>>

\* ---------------------------------------------------------------------------
\* Sequence helpers used by the generators
\* ---------------------------------------------------------------------------
RECURSIVE Flatten(_)
Flatten(ss) == IF ss = <<>> THEN <<>> ELSE Head(ss) \o Flatten(Tail(ss))

RECURSIVE SumLen(_)
SumLen(ss) == IF ss = <<>> THEN 0 ELSE Len(Head(ss)) + SumLen(Tail(ss))

WithLayer(vs, layer) == SelectSeq(vs, LAMBDA v : v.layer = layer)

\* Mutant of MapFromSeq: set() of a present key is ignored, the value set
\* first stays.
MapFromSeqKeepFirst(vs) ==
  LET firsts == SelectSeq([i \in 1..Len(vs) |-> i],
                          LAMBDA i : \A j \in 1..(i - 1) : vs[j].name # vs[i].name)
  IN [k \in 1..Len(firsts) |-> vs[firsts[k]]]

\* A JavaScript Map (or object) keyed by name that is filled by set() of each
\* element of vs in turn, as the sequence of its values in insertion order:
\* set() of a new key appends, set() of a present key replaces the value in
\* place.  So a key stands where it first appeared, with the value set last.
MapFromSeq(vs) ==
  LET firsts == SelectSeq([i \in 1..Len(vs) |-> i],
                          LAMBDA i : \A j \in 1..(i - 1) : vs[j].name # vs[i].name)
      LastOf(name) == CHOOSE i \in 1..Len(vs) :
                        /\ vs[i].name = name
                        /\ \A j \in (i + 1)..Len(vs) : vs[j].name # name
  IN [k \in 1..Len(firsts) |-> vs[LastOf(vs[firsts[k]].name)]]

\* The keys of a sequence in order of first appearance.
FirstAppearances(ks) ==
  LET firsts == SelectSeq([i \in 1..Len(ks) |-> i],
                          LAMBDA i : \A j \in 1..(i - 1) : ks[j] # ks[i])
  IN [k \in 1..Len(firsts) |-> ks[firsts[k]]]

AllSynthetic == Flatten(ALL_SYNTHETIC_TOKENS)

\* ---------------------------------------------------------------------------
\* Token grouping
\* ---------------------------------------------------------------------------
FontSizeText ==
  {<<"3xl">>, <<"2xl">>, <<"xl">>, <<"lg">>, <<"md">>, <<"sm">>, <<"xs">>, <<"2xs">>, <<"base">>}

FontWeightText ==
  {<<"light">>, <<"normal">>, <<"medium">>, <<"semi", "bold">>, <<"bold">>,
   <<"extra", "bold">>, <<"black">>, <<"base">>}

\* /^<p>-h\d$/
HeadingOf(n, p) ==
  /\ HasPrefix(n, p)
  /\ Len(n) = Len(p) + 1
  /\ n[Len(n)] \in {"h0", "h1", "h2", "h3", "h4", "h5", "h6", "h7", "h8", "h9"}

\* The group name chosen by the if-chain of groupFoundationTokens.
FoundationGroupOf(n) ==
  IF PrefixDash(n, <<"font", "family">>) THEN "Typography - Font Family"
  ELSE IF PrefixAlt(n, <<"font", "size">>, FontSizeText) THEN "Typography - Font Size (Text)"
  ELSE IF HeadingOf(n, <<"font", "size">>) THEN "Typography - Font Size (Headings)"
  ELSE IF PrefixAlt(n, <<"font", "weight">>, FontWeightText) THEN "Typography - Font Weight"
  ELSE IF HeadingOf(n, <<"font", "weight">>) THEN "Typography - Font Weight (Headings)"
  ELSE IF PrefixAlt(n, <<"line", "height">>,
                    {<<"base">>, <<"xl">>, <<"lg">>, <<"md">>, <<"sm">>})
       THEN "Typography - Line Height"
  ELSE IF HeadingOf(n, <<"line", "height">>) THEN "Typography - Line Height (Headings)"
  ELSE IF PrefixDash(n, <<"color", "grey">>) THEN "Colors - Grey Ramp"
  ELSE IF PrefixDash(n, <<"color", "red">>) THEN "Colors - Red Ramp"
  ELSE IF PrefixDash(n, <<"color", "pink">>) THEN "Colors - Pink Ramp"
  ELSE IF PrefixDash(n, <<"color", "purple">>) THEN "Colors - Purple Ramp"
  ELSE IF PrefixDash(n, <<"color", "indigo">>) THEN "Colors - Indigo Ramp"
  ELSE IF PrefixDash(n, <<"color", "navy">>) THEN "Colors - Navy Ramp"
  ELSE IF PrefixDash(n, <<"color", "bright", "blue">>) THEN "Colors - Bright Blue Ramp"
  ELSE IF PrefixDash(n, <<"color", "blue">>) THEN "Colors - Blue Ramp"
  ELSE IF PrefixDash(n, <<"color", "cyan">>) THEN "Colors - Cyan Ramp"
  ELSE IF PrefixDash(n, <<"color", "teal", "blue">>) THEN "Colors - Teal Blue Ramp"
  ELSE IF PrefixDash(n, <<"color", "teal">>) THEN "Colors - Teal Ramp"
  ELSE IF PrefixDash(n, <<"color", "mint">>) THEN "Colors - Mint Ramp"
  ELSE IF PrefixDash(n, <<"color", "green">>) THEN "Colors - Green Ramp"
  ELSE IF PrefixDash(n, <<"color", "yellow">>) THEN "Colors - Yellow Ramp"
  ELSE IF PrefixDash(n, <<"color", "orange">>) THEN "Colors - Orange Ramp"
  ELSE IF n = <<"color", "black">> \/ n = <<"color", "white">> THEN "Colors - Black & White"
  ELSE IF n = <<"base", "unit">> THEN "Base Unit"
  ELSE IF PrefixDash(n, <<"opacity">>) THEN "Opacity Scale"
  ELSE IF HasPrefix(n, <<"border", "radius">>) THEN "Border Radius"
  ELSE IF PrefixDash(n, <<"focus">>) THEN "Focus"
  ELSE IF PrefixDash(n, <<"link">>) THEN "Link"
  ELSE IF PrefixDash(n, <<"icon", "size">>) THEN "Icon Sizing"
  ELSE IF Len(n) >= 2 /\ n[Len(n)] = "breakpoint" THEN "Breakpoints"
  ELSE IF PrefixDash(n, <<"zindex">>) THEN "Z-Index Scale"
  ELSE "Other Foundation"

\* The group name chosen by the if-chain of groupSemanticTokens.
SemanticGroupOf(n) ==
  IF PrefixDash(n, <<"color", "text">>) THEN "Text Colors"
  ELSE IF PrefixDash(n, <<"color", "icon">>) THEN "Icon Colors"
  ELSE IF PrefixDash(n, <<"color", "border">>) THEN "Border Colors"
  ELSE IF PrefixDash(n, <<"color", "background">>) THEN "Background Colors"
  ELSE "Other Semantic"

\* The Map a grouping function returns: the groups in order of first
\* appearance, each with its tokens in input order.
GroupBy(tokens, GroupOf(_)) ==
  LET order == FirstAppearances([i \in 1..Len(tokens) |-> GroupOf(tokens[i].name)])
  IN [g \in 1..Len(order) |->
        [groupName |-> order[g],
         tokens    |-> SelectSeq(tokens, LAMBDA t : GroupOf(t.name) = order[g])]]

groupFoundationTokens(tokens) == GroupBy(tokens, FoundationGroupOf)

groupSemanticTokens(tokens) == GroupBy(tokens, SemanticGroupOf)

\* ---------------------------------------------------------------------------
\* generateCssVariablesScss.  The stylesheet is the sequence of its lines.
\* ---------------------------------------------------------------------------
Blank == [kind |-> "blank"]

Rule == [kind |-> "comment", text |-> <<"====">>]

Comment(text) == [kind |-> "comment", text |-> text]

Import(file) == [kind |-> "import", file |-> file]

Open(selector) == [kind |-> "open", selector |-> selector]

Close == [kind |-> "close"]

GroupLine(label) == [kind |-> "group", label |-> label]

\* `  ${cssName}: ${value};${comment}`
DeclLine(prop, value, comment) ==
  [kind |-> "decl", prop |-> prop, value |-> value, comment |-> comment]

Capitalized ==
  [lumen |-> "Lumen", connect |-> "Connect", brightspeed |-> "Brightspeed",
   centurylink |-> "Centurylink", colt |-> "Colt", portal |-> "Portal"]

capitalize(s) == Capitalized[s]

TokenLine(token) ==
  DeclLine(toCssCustomProp(token.name), toScssInterpolation(token.name), token.comment)

SyntheticLine(syn) ==
  LET needsInterpolation == \E i \in 1..Len(syn.scssExpression) : syn.scssExpression[i] = "map-get("
      value == IF needsInterpolation THEN <<"#{">> \o syn.scssExpression \o <<"}">>
               ELSE syn.scssExpression
  IN DeclLine(toCssCustomProp(syn.name), value, syn.comment)

GroupLines(groups) ==
  Flatten([g \in 1..Len(groups) |->
             <<GroupLine(groups[g].groupName)>> \o
             [i \in 1..Len(groups[g].tokens) |-> TokenLine(groups[g].tokens[i])] \o
             <<Blank>>])

SyntheticScaleLabels ==
  <<"Shadow Scale", "Spacing Scale", "Border Width Scale", "Transition Duration Scale",
    "Easing Functions">>

SyntheticLines ==
  Flatten([s \in 1..Len(ALL_SYNTHETIC_TOKENS) |->
             <<GroupLine(SyntheticScaleLabels[s])>> \o
             [i \in 1..Len(ALL_SYNTHETIC_TOKENS[s]) |-> SyntheticLine(ALL_SYNTHETIC_TOKENS[s][i])] \o
             <<Blank>>])

LegacyNames ==
  <<<<"color", "background", "primary">>, <<"color", "background", "secondary">>,
    <<"color", "link", "cta", "icon">>, <<"color", "marketing", "icon", "primary">>,
    <<"color", "marketing", "icon", "secondary">>, <<"color", "marketing", "icon", "tertiary">>,
    <<"color", "marketing", "icon", "shadow">>>>

LegacySources ==
  <<<<"color", "background", "primary">>, <<"color", "background", "secondary">>,
    <<"link", "cta", "icon", "color">>, <<"marketing", "icon", "primary", "color">>,
    <<"marketing", "icon", "secondary", "color">>, <<"marketing", "icon", "tertiary", "color">>,
    <<"marketing", "icon", "shadow", "color">>>>

LegacyLines ==
  <<Rule, Comment(<<"Legacy Custom Properties">>), Rule, Open("%css-variables")>> \o
  [i \in 1..Len(LegacyNames) |->
     DeclLine(<<"", "">> \o LegacyNames[i], toScssInterpolation(LegacySources[i]), <<>>)] \o
  <<Close>>

\* foundationMap / dedupedFoundation
DedupeFoundation(foundationTokens) == MapFromSeq(foundationTokens)

\* Mutant of SelectFoundation: the layers argument is not consulted.
SelectFoundationAlways(themeVars, globalVars, layers) ==
  WithLayer(globalVars, "foundation") \o WithLayer(themeVars, "foundation")

\* foundationTokens
SelectFoundation(themeVars, globalVars, layers) ==
  IF "foundation" \in Range(layers)
  THEN WithLayer(globalVars, "foundation") \o WithLayer(themeVars, "foundation")
  ELSE <<>>

\* semanticTokens
SelectSemantic(themeVars, globalVars, layers) ==
  IF "semantic" \in Range(layers) THEN WithLayer(themeVars, "semantic") ELSE <<>>

generateCssVariablesScss(themeVars, globalVars, theme, layers) ==
  LET foundationTokens  == SelectFoundation(themeVars, globalVars, layers)
      semanticTokens    == SelectSemantic(themeVars, globalVars, layers)
      dedupedFoundation == DedupeFoundation(foundationTokens)
      syntheticCount    == SumLen(ALL_SYNTHETIC_TOKENS)
      foundationCount   == Len(dedupedFoundation) + syntheticCount
      semanticCount     == Len(semanticTokens)
      totalCount        == foundationCount + semanticCount
      header ==
        <<Rule,
          Comment(<<"CSS Custom Properties - ", capitalize(theme), " Theme">>),
          Comment(<<"Generated by: scripts/generate-css-custom-properties.ts">>),
          Comment(<<"Generated at: ">>),
          [kind |-> "total", total |-> totalCount],
          [kind |-> "counts", foundation |-> foundationCount, semantic |-> semanticCount],
          Comment(<<"All foundation + semantic tokens at :root (globally accessible)">>),
          Comment(<<"Legacy properties under %css-variables / .chi (backward compat)">>),
          Rule, Blank,
          Import("_global-variables"), Import("_variables"),
          Import("_global-mixins"), Import("_mixins"),
          Blank, Comment(<<"sass-lint:disable-all">>), Blank>>
      foundationBlock ==
        IF Len(dedupedFoundation) > 0
        THEN <<Rule, Comment(<<"Foundation Layer - :root scope">>), Rule, Open(":root")>> \o
             GroupLines(groupFoundationTokens(dedupedFoundation)) \o
             SyntheticLines \o
             <<Close, Blank>>
        ELSE <<>>
      semanticBlock ==
        IF Len(semanticTokens) > 0
        THEN (IF Len(dedupedFoundation) = 0
              THEN <<Open(":root")>>
              ELSE <<Rule, Comment(<<"Semantic Layer - :root scope">>), Rule, Open(":root")>>) \o
             GroupLines(groupSemanticTokens(semanticTokens)) \o
             <<Close, Blank>> \o
             LegacyLines
        ELSE <<>>
  IN [scss            |-> header \o foundationBlock \o semanticBlock \o <<Blank>>,
      foundationCount |-> foundationCount,
      semanticCount   |-> semanticCount,
      totalCount      |-> totalCount]

\* ---------------------------------------------------------------------------
\* JSON metadata
\* ---------------------------------------------------------------------------
\* Segments that start with the text "ease".
EaseSegments == {"ease", "easing"}

inferTokenType(name, value) ==
  IF PrefixDash(name, <<"color">>) \/ HasPrefix(name, <<"focus", "color">>) THEN "color"
  ELSE IF PrefixDash(name, <<"font", "family">>) THEN "fontFamily"
  ELSE IF PrefixDash(name, <<"font", "size">>) THEN "fontSize"
  ELSE IF PrefixDash(name, <<"font", "weight">>) THEN "fontWeight"
  ELSE IF HasPrefix(name, <<"line", "height">>) THEN "lineHeight"
  ELSE IF PrefixDash(name, <<"opacity">>) THEN "opacity"
  ELSE IF HasPrefix(name, <<"border", "radius">>) THEN "borderRadius"
  ELSE IF PrefixDash(name, <<"border", "width">>) THEN "borderWidth"
  ELSE IF PrefixDash(name, <<"icon", "size">>) THEN "size"
  ELSE IF name = <<"base", "unit">> THEN "dimension"
  ELSE IF PrefixDash(name, <<"link">>) THEN "color"
  ELSE IF PrefixDash(name, <<"shadow">>) THEN "shadow"
  ELSE IF PrefixDash(name, <<"spacing">>) THEN "spacing"
  ELSE IF PrefixDash(name, <<"duration">>) THEN "duration"
  ELSE IF Len(name) >= 1 /\ name[1] \in EaseSegments THEN "easing"
  ELSE IF Len(name) >= 2 /\ name[Len(name)] = "breakpoint" THEN "breakpoint"
  ELSE IF PrefixDash(name, <<"zindex">>) THEN "zIndex"
  ELSE "other"

inferCategory(name) ==
  IF PrefixDash(name, <<"font">>) \/ HasPrefix(name, <<"line", "height">>) THEN "typography"
  ELSE IF PrefixDash(name, <<"color", "text">>) THEN "text-colors"
  ELSE IF PrefixDash(name, <<"color", "icon">>) THEN "icon-colors"
  ELSE IF PrefixDash(name, <<"color", "border">>) THEN "border-colors"
  ELSE IF PrefixDash(name, <<"color", "background">>) THEN "background-colors"
  ELSE IF PrefixDash(name, <<"color">>) THEN "color-palette"
  ELSE IF PrefixDash(name, <<"opacity">>) THEN "opacity"
  ELSE IF HasPrefix(name, <<"border", "radius">>) THEN "border-radius"
  ELSE IF PrefixDash(name, <<"border", "width">>) THEN "border-width"
  ELSE IF HasPrefix(name, <<"icon", "size">>) THEN "icon-sizing"
  ELSE IF PrefixDash(name, <<"focus">>) \/ PrefixDash(name, <<"link">>) THEN "interactive"
  ELSE IF name = <<"base", "unit">> THEN "spacing"
  ELSE IF PrefixDash(name, <<"spacing">>) THEN "spacing"
  ELSE IF PrefixDash(name, <<"shadow">>) THEN "elevation"
  ELSE IF PrefixDash(name, <<"duration">>) \/ (Len(name) >= 1 /\ name[1] \in EaseSegments)
       THEN "motion"
  ELSE IF Len(name) >= 2 /\ name[Len(name)] = "breakpoint" THEN "breakpoints"
  ELSE IF PrefixDash(name, <<"zindex">>) THEN "z-index"
  ELSE "other"

\* A TokenEntry under its key `name`; rawValue is kept as text pieces.
TokenEntry(token) ==
  [name          |-> token.name,
   scssVariable  |-> <<"$">> \o token.name,
   cssVariable   |-> toCssCustomProp(token.name),
   rawValue      |-> <<token.rawValue>>,
   resolvedValue |-> "",
   type          |-> inferTokenType(token.name, token.rawValue),
   category      |-> inferCategory(token.name),
   comment       |-> token.comment]

SyntheticEntry(syn) ==
  [name          |-> syn.name,
   scssVariable  |-> IF \E i \in 1..Len(syn.scssExpression) : syn.scssExpression[i] = "map-get("
                     THEN <<"map-get(", "$shadow, ", syn.name[2], ")">>
                     ELSE syn.scssExpression,
   cssVariable   |-> toCssCustomProp(syn.name),
   rawValue      |-> syn.scssExpression,
   resolvedValue |-> "",
   type          |-> inferTokenType(syn.name, syn.scssExpression),
   category      |-> inferCategory(syn.name),
   comment       |-> syn.comment]

AllSyntheticEntries == [i \in 1..Len(AllSynthetic) |-> SyntheticEntry(AllSynthetic[i])]

generateTokenMetadata(themeVars, globalVars, theme, generatedOutput) ==
  LET allFoundation     == WithLayer(globalVars, "foundation") \o WithLayer(themeVars, "foundation")
      dedupedFoundation == MapFromSeq(allFoundation)
      semanticTokens    == WithLayer(themeVars, "semantic")
      componentCount    == Len(WithLayer(themeVars, "component"))
      foundationEntries ==
        MapFromSeq([i \in 1..Len(dedupedFoundation) |-> TokenEntry(dedupedFoundation[i])] \o
                   AllSyntheticEntries)
      semanticEntries ==
        MapFromSeq([i \in 1..Len(semanticTokens) |-> TokenEntry(semanticTokens[i])])
  IN [theme      |-> theme,
      version    |-> "7.0.0",
      tokenCount |->
        [foundation          |-> generatedOutput.foundationCount,
         semantic            |-> generatedOutput.semanticCount,
         component           |-> componentCount,
         total               |-> generatedOutput.foundationCount + generatedOutput.semanticCount
                                   + componentCount,
         cssCustomProperties |-> generatedOutput.totalCount],
      tokens     |-> [foundation |-> foundationEntries, semantic |-> semanticEntries]]

\* ===========================================================================
\* Token generation on drawn inputs: parseArgs' --layers handling,
\* parseScssVariables, generateCssVariablesScss and generateTokenMetadata
\* applied to bounded variable files.
\* ===========================================================================
\* Bound: longest theme variables file explored.
MaxThemeVars == 2

DeclInputs ==
  {Decl(<<"color", "grey", "80">>, "#111", <<>>),
   Decl(<<"color", "grey", "80">>, "#222", <<"override">>),
   Decl(<<"base", "unit">>, "0.5rem", <<>>),
   Decl(<<"color", "text", "base">>, "#111", <<>>),
   Decl(<<"color", "text", "base">>, "#222", <<"body text">>),
   Decl(<<"button", "height">>, "2rem", <<>>),
   Decl(<<"color", "grey", "80">>, MapValue, <<>>),
   Decl(<<"icon", "color">>, "inherit", <<>>)}

\* Contents of the global variables file explored.
GlobalFileInputs ==
  {<<>>,
   <<Decl(<<"color", "grey", "80">>, "#111", <<>>)>>,
   <<Decl(<<"color", "text", "base">>, "#111", <<>>)>>,
   <<Decl(<<"base", "unit">>, "0.5rem", <<>>), Decl(<<"color", "grey", "80">>, "#111", <<>>)>>,
   <<Decl(<<"color", "grey", "80">>, "#333", <<"global">>), Decl(<<"base", "unit">>, "0.5rem", <<>>)>>}

\* The comma-separated names of a --layers= argument.
LayerArgInputs ==
  {<<"foundation">>, <<"semantic">>, <<"foundation", "semantic">>,
   <<"component", "semantic">>, <<"component">>}

\* layers of parseArgs: the default, or the known names of the argument
FilterLayers(names) == SelectSeq(names, LAMBDA l : l \in Range(LAYERS))

SelectedLayers == IF layerArg.given THEN FilterLayers(layerArg.names) ELSE LAYERS

TokenInit ==
  /\ globalFile \in GlobalFileInputs
  /\ themeFile \in SeqsUpTo(DeclInputs, MaxThemeVars)
  /\ layerArg \in {[given |-> FALSE, names |-> <<>>]} \cup
                   {[given |-> TRUE, names |-> l] : l \in LayerArgInputs}
  /\ tPc = "ready"
  /\ output = NoOutput
  /\ metadata = NoMetadata
  /\ BuildIdle
  /\ MainIdle
  /\ PopIdle

\* The body of main's loop for one theme, without the file writes.
Generate ==
  /\ tPc = "ready"
  /\ LET globalVars == parseScssVariables(globalFile)
         themeVars  == parseScssVariables(themeFile)
         out        == generateCssVariablesScss(themeVars, globalVars, "lumen", SelectedLayers)
     IN /\ output' = out
        /\ metadata' = generateTokenMetadata(themeVars, globalVars, "lumen", out)
  /\ tPc' = "done"
  /\ UNCHANGED <<globalFile, themeFile, layerArg, buildVars, mainVars, popVars>>

TokenNext == Generate

SpecTokens == TokenInit /\ [][TokenNext]_vars

\* ---- reading a stylesheet ----
IsChiDecl(line) == line.kind = "decl" /\ HasPrefix(line.prop, <<"", "", PREFIX>>)

ChiDecls(scss) == {i \in 1..Len(scss) : IsChiDecl(scss[i])}

\* Line i lies inside a block opened with `selector {`.
InBlock(scss, i, selector) ==
  \E j \in 1..(i - 1) :
    /\ scss[j].kind = "open"
    /\ scss[j].selector = selector
    /\ \A k \in (j + 1)..(i - 1) : scss[k].kind \notin {"open", "close"}

\* The token name of a --chi-* property.
TokenNameOf(prop) == Rest(prop, 3)

SyntheticNames == {AllSynthetic[i].name : i \in 1..Len(AllSynthetic)}

ParsedInputs == parseScssVariables(globalFile) \o parseScssVariables(themeFile)

\* ---- C5 ----
\* C5: every --chi-* custom property name is declared at most once in the
\* generated stylesheet, also when a variable is declared more than once in
\* the parsed lists.
C5_PropertyNamesUnique ==
  tPc = "done" =>
    \A i, j \in ChiDecls(output.scss) :
      output.scss[i].prop = output.scss[j].prop => i = j

\* ---- C9 ----
\* C9: a foundation token is declared only if 'foundation' is among the names
\* of --layers, a semantic token only if 'semantic' is; names that are not in
\* LAYERS select nothing: every declared property is a foundation or a
\* semantic token.
C9_LayersSelect ==
  tPc = "done" =>
    LET requested == IF layerArg.given THEN Range(layerArg.names) ELSE Range(LAYERS)
    IN \A i \in ChiDecls(output.scss) :
         LET n == TokenNameOf(output.scss[i].prop)
         IN /\ (FOUNDATION_PATTERNS(n) \/ n \in SyntheticNames) => "foundation" \in requested
            /\ SEMANTIC_PATTERNS(n) => "semantic" \in requested
            /\ FOUNDATION_PATTERNS(n) \/ n \in SyntheticNames \/ SEMANTIC_PATTERNS(n)

\* A run with --layers=component,semantic on files that hold a foundation, a
\* semantic and a component variable: only the semantic one is declared.
C9_Witness ==
  /\ tPc = "done"
  /\ layerArg = [given |-> TRUE, names |-> <<"component", "semantic">>]
  /\ \E i \in 1..Len(ParsedInputs) : ParsedInputs[i].layer = "foundation"
  /\ \E i \in 1..Len(themeFile) : themeFile[i].name = <<"button", "height">>
  /\ ChiDecls(output.scss) # {}

\* ---- C10 ----
\* C10: with both layers selected, every variable classified foundation or
\* semantic, from the global or from the theme file, is declared as
\* --chi-<name> inside a :root block.
C10_AllTokensAtRoot ==
  (tPc = "done" /\ Range(SelectedLayers) = Range(LAYERS)) =>
    \A v \in 1..Len(ParsedInputs) :
      ParsedInputs[v].layer \in {"foundation", "semantic"} =>
        \E i \in ChiDecls(output.scss) :
          /\ output.scss[i].prop = toCssCustomProp(ParsedInputs[v].name)
          /\ InBlock(output.scss, i, ":root")

\* ---- C11 ----
\* The stylesheet has a %css-variables block that declares each of the seven
\* legacy custom properties.
HasLegacyBlock(scss) ==
  \A k \in 1..Len(LegacyNames) :
    \E i \in 1..Len(scss) :
      /\ scss[i].kind = "decl"
      /\ scss[i].prop = <<"", "">> \o LegacyNames[k]
      /\ scss[i].value = toScssInterpolation(LegacySources[k])
      /\ InBlock(scss, i, "%css-variables")

\* The header line that announces the legacy block.
AnnouncesLegacy(scss) ==
  \E i \in 1..Len(scss) :
    /\ scss[i].kind = "comment"
    /\ scss[i].text = <<"Legacy properties under %css-variables / .chi (backward compat)">>

\* C11: every stylesheet returned by generateCssVariablesScss contains the
\* legacy %css-variables block with the seven backward-compatible custom
\* properties that its header announces, for every input and every selection
\* of layers.
C11_LegacyBlockAlways ==
  tPc = "done" => (AnnouncesLegacy(output.scss) /\ HasLegacyBlock(output.scss))

\* ---- C12 ----
\* The text of k times 0.5rem as the scale writes a value.
HalfRems(k) == IF k = 0 THEN <<"0">> ELSE RemText(50 * k) \o <<"rem">>

CarriesSpaceNote(comment, k) ==
  \E j \in 1..(Len(comment) - 1) :
    /\ comment[j] = " - Chi space("
    /\ comment[j + 1] = ToString(k)

\* The spacing tokens among the foundation entries of the metadata.
SpacingEntries ==
  SelectSeq(metadata.tokens.foundation,
            LAMBDA e : Len(e.name) = 2 /\ e.name[1] = "spacing" /\ e.type = "spacing")

\* C12: for every k in 0..10 the spacing scale built by buildSpacingScale has
\* a token whose value is k times 0.5rem and whose comment carries the note
\* 'Chi space(k)'; the scale is read where it ends up, in the foundation
\* entries of the metadata.
C12_SpacingAlignsWithSpace ==
  tPc = "done" =>
    \A k \in 0..10 :
      /\ \E i \in 1..Len(buildSpacingScale) :
           /\ buildSpacingScale[i].scssExpression = HalfRems(k)
           /\ CarriesSpaceNote(buildSpacingScale[i].comment, k)
      /\ \E i \in 1..Len(SpacingEntries) :
           /\ SpacingEntries[i].rawValue = HalfRems(k)
           /\ CarriesSpaceNote(SpacingEntries[i].comment, k)

\* ---- C13 ----
HeaderTotal(scss) == scss[CHOOSE i \in 1..Len(scss) : scss[i].kind = "total"].total

HeaderCounts(scss) == scss[CHOOSE i \in 1..Len(scss) : scss[i].kind = "counts"]

\* The --chi-* declarations of a stylesheet that belong to the semantic layer;
\* the others (synthetic ones included) belong to the foundation layer.
SemanticDecls(scss) ==
  {i \in ChiDecls(scss) :
     /\ TokenNameOf(scss[i].prop) \notin SyntheticNames
     /\ classifyToken(TokenNameOf(scss[i].prop), "") = "semantic"}

\* C13: the 'Total Properties', 'Foundation' and 'Semantic' counts of the
\* header (totalCount, foundationCount, semanticCount) equal the number of
\* --chi-* declarations emitted in the stylesheet, in total and per layer,
\* synthetic tokens counted as foundation, for every input and every
\* selection of layers.
C13_HeaderCountsMatch ==
  tPc = "done" =>
    LET scss == output.scss
    IN /\ HeaderTotal(scss) = output.totalCount
       /\ HeaderCounts(scss).foundation = output.foundationCount
       /\ HeaderCounts(scss).semantic = output.semanticCount
       /\ output.totalCount = Cardinality(ChiDecls(scss))
       /\ output.semanticCount = Cardinality(SemanticDecls(scss))
       /\ output.foundationCount = Cardinality(ChiDecls(scss) \ SemanticDecls(scss))

\* ---- C14 ----
\* C14: in the metadata returned by generateTokenMetadata, tokenCount.foundation
\* is the number of entries of tokens.foundation, tokenCount.semantic the
\* number of entries of tokens.semantic, tokenCount.total is foundation +
\* semantic + component and tokenCount.cssCustomProperties is foundation +
\* semantic, for every input and every selection of layers.
C14_TokenCountsMatchEntries ==
  tPc = "done" =>
    LET tc == metadata.tokenCount
    IN /\ tc.foundation = Len(metadata.tokens.foundation)
       /\ tc.semantic = Len(metadata.tokens.semantic)
       /\ tc.total = tc.foundation + tc.semantic + tc.component
       /\ tc.cssCustomProperties = tc.foundation + tc.semantic

\* ---- C15 ----
FoundationOf(file) == WithLayer(parseScssVariables(file), "foundation")

NamesOf(vs) == {vs[i].name : i \in 1..Len(vs)}

\* The foundation declarations in the order generateCssVariablesScss and
\* generateTokenMetadata take them: global file first, then theme file.
AllFoundationDecls == FoundationOf(globalFile) \o FoundationOf(themeFile)

\* The foundation tokens declared in the global file and in the theme file.
Overridden == NamesOf(FoundationOf(globalFile)) \cap NamesOf(FoundationOf(themeFile))

\* The theme file's (last) declaration of n.
ThemeDeclOf(n) ==
  LET t == FoundationOf(themeFile)
  IN t[CHOOSE i \in 1..Len(t) : t[i].name = n /\ \A j \in (i + 1)..Len(t) : t[j].name # n]

FirstDeclOf(n) ==
  CHOOSE i \in 1..Len(AllFoundationDecls) :
    /\ AllFoundationDecls[i].name = n
    /\ \A j \in 1..(i - 1) : AllFoundationDecls[j].name # n

\* The first declaration of any token of n's group.
FirstDeclOfGroup(n) ==
  CHOOSE i \in 1..Len(AllFoundationDecls) :
    /\ FoundationGroupOf(AllFoundationDecls[i].name) = FoundationGroupOf(n)
    /\ \A j \in 1..(i - 1) :
         FoundationGroupOf(AllFoundationDecls[j].name) # FoundationGroupOf(n)

\* n comes before m in the stylesheet if first declarations decide: those of
\* their groups, and inside one group their own.
DeclaredBefore(n, m) ==
  IF FoundationGroupOf(n) = FoundationGroupOf(m)
  THEN FirstDeclOf(n) < FirstDeclOf(m)
  ELSE FirstDeclOfGroup(n) < FirstDeclOfGroup(m)

EntriesOf(n) ==
  {i \in 1..Len(metadata.tokens.foundation) : metadata.tokens.foundation[i].name = n}

DeclLinesOf(scss, n) == {i \in ChiDecls(scss) : scss[i].prop = toCssCustomProp(n)}

\* The metadata holds n once, with the theme declaration's value and comment,
\* where its first declaration puts it.
OverrideInMetadata(n) ==
  /\ Cardinality(EntriesOf(n)) = 1
  /\ \A i \in EntriesOf(n) :
       /\ metadata.tokens.foundation[i].rawValue = <<ThemeDeclOf(n).rawValue>>
       /\ metadata.tokens.foundation[i].comment = ThemeDeclOf(n).comment
       /\ \A m \in NamesOf(AllFoundationDecls) \ {n} :
            \A j \in EntriesOf(m) : (i < j) <=> (FirstDeclOf(n) < FirstDeclOf(m))

\* The stylesheet declares n once, in a :root block, with the theme
\* declaration's comment, where its first declaration puts it.
OverrideInStylesheet(n) ==
  /\ Cardinality(DeclLinesOf(output.scss, n)) = 1
  /\ \A i \in DeclLinesOf(output.scss, n) :
       /\ output.scss[i].value = toScssInterpolation(n)
       /\ output.scss[i].comment = ThemeDeclOf(n).comment
       /\ InBlock(output.scss, i, ":root")
       /\ \A m \in NamesOf(AllFoundationDecls) \ {n} :
            \A j \in DeclLinesOf(output.scss, m) : (i < j) <=> DeclaredBefore(n, m)

\* C15 as stated: a foundation token declared in the global file and in the
\* theme file is contained exactly once in the stylesheet and in the metadata,
\* with the theme declaration's value and comment, at the position of its
\* first (global) declaration.
C15_ThemeOverridesGlobalAnyLayers ==
  tPc = "done" => \A n \in Overridden : OverrideInStylesheet(n) /\ OverrideInMetadata(n)

\* C15: a foundation token declared in the global file and in the theme file
\* is contained exactly once in the metadata and, when the foundation layer is
\* selected, exactly once in the stylesheet, with the theme declaration's
\* value and comment, at the position of its first (global) declaration; when
\* the foundation layer is not selected the stylesheet does not declare it.
C15_ThemeOverridesGlobal ==
  tPc = "done" =>
    \A n \in Overridden :
      /\ OverrideInMetadata(n)
      /\ IF "foundation" \in Range(SelectedLayers)
         THEN OverrideInStylesheet(n)
         ELSE DeclLinesOf(output.scss, n) = {}

\* The global file declares a foundation token and another one after it, the
\* theme file declares the first again with another value and comment, and
\* the foundation layer is selected.
C15_Witness ==
  /\ tPc = "done"
  /\ "foundation" \in Range(SelectedLayers)
  /\ \E n \in Overridden :
       /\ FirstDeclOf(n) = 1
       /\ Len(FoundationOf(globalFile)) >= 2
       /\ ThemeDeclOf(n).rawValue # AllFoundationDecls[1].rawValue
       /\ ThemeDeclOf(n).comment # AllFoundationDecls[1].comment
       /\ DeclLinesOf(output.scss, n) # {}

\* ===========================================================================
\* The generator's command line: parseArgs and main
\*
\* An argument is its flag (the text before the first '=') and the pieces the
\* rest splits into at '=', each piece being the list of its ','-separated
\* items: "--theme=lumen" is Arg("--theme", << <<"lumen">> >>), "--dry-run" is
\* Arg("--dry-run", <<>>).
\*
\* The source tree is taken to be intact and writable: _global-variables.scss
\* can be read and the writes of main succeed.
\* ===========================================================================
Arg(flag, parts) == [flag |-> flag, parts |-> parts]

\* Bound: longest argument list explored.
MaxArgs == 2

ArgInputs ==
  {Arg("--theme", << <<"lumen">> >>),
   Arg("--theme", << <<"bogus">> >>),
   Arg("--theme", << <<"lumen">>, <<"x">> >>),
   Arg("--layers", << <<"semantic", "component">> >>),
   Arg("--json-only", <<>>),
   Arg("--dry-run", <<>>),
   Arg("--help", <<>>)}

\* arg.startsWith('--<flag>=')
StartsWithFlag(arg, flag) == arg.flag = flag /\ Len(arg.parts) >= 1

\* arg === '<flag>'
IsFlag(arg, flag) == arg.flag = flag /\ arg.parts = <<>>

\* THEMES.includes(arg.split('=')[1]): no theme name holds a comma
SplitNamesTheme(arg) == Len(arg.parts[1]) = 1 /\ arg.parts[1][1] \in Range(THEMES)

\* One iteration of parseArgs' loop over the state of its local variables;
\* `exit` is the status of process.exit, -1 when the loop goes on.
ParseArg(acc, arg) ==
  IF StartsWithFlag(arg, "--theme")
  THEN IF SplitNamesTheme(arg)
       THEN [acc EXCEPT !.themes = <<arg.parts[1][1]>>]
       ELSE [acc EXCEPT !.exit = 1, !.log = Append(@, [kind |-> "unknownTheme", theme |-> ""])]
  ELSE IF StartsWithFlag(arg, "--layers")
  THEN [acc EXCEPT !.layers = FilterLayers(arg.parts[1])]
  ELSE IF IsFlag(arg, "--json-only") THEN [acc EXCEPT !.jsonOnly = TRUE]
  ELSE IF IsFlag(arg, "--dry-run") THEN [acc EXCEPT !.dryRun = TRUE]
  ELSE IF IsFlag(arg, "--help") \/ IsFlag(arg, "-h")
  THEN [acc EXCEPT !.exit = 0, !.log = Append(@, [kind |-> "help", theme |-> ""])]
  ELSE acc

RECURSIVE ParseFrom(_, _, _)
ParseFrom(acc, args, i) ==
  IF i > Len(args) \/ acc.exit # -1 THEN acc
  ELSE ParseFrom(ParseArg(acc, args[i]), args, i + 1)

\* Mutant of parseArgs: process.exit is not called for an unknown theme.
parseArgsNoExit(args) ==
  LET r == ParseFrom([themes |-> THEMES, layers |-> LAYERS, jsonOnly |-> FALSE,
                      dryRun |-> FALSE, exit |-> -1, log |-> <<>>], args, 1)
  IN IF r.exit = 1 THEN [r EXCEPT !.exit = -1] ELSE r

parseArgs(args) ==
  ParseFrom([themes |-> THEMES, layers |-> LAYERS, jsonOnly |-> FALSE, dryRun |-> FALSE,
             exit |-> -1, log |-> <<>>], args, 1)

\* ---- files ----
GLOBAL_VARS_FILE == <<"src", "chi", "_global-variables.scss">>

VarsFile(theme) == <<"src", "chi", "themes", theme, "_variables.scss">>

ScssPath(theme) == <<"src", "chi", "themes", theme, "css-variables.scss">>

JsonPath(theme) == <<"dist", "tokens", theme, ".json">>

AllThemesPath == <<"dist", "tokens", "all-themes.json">>

DOCS_REPOS == <<"matt-chi-documentation", "chi-documentation">>

File(content) == [exists |-> TRUE, content |-> content]

\* What the variables files hold in the runs of main that are explored.
GlobalVarsContent ==
  <<Decl(<<"base", "unit">>, "0.5rem", <<>>), Decl(<<"color", "grey", "80">>, "#111", <<>>)>>

ThemeVarsContent ==
  <<Decl(<<"color", "grey", "80">>, "#222", <<"override">>),
    Decl(<<"color", "text", "base">>, "#111", <<>>),
    Decl(<<"button", "height">>, "2rem", <<>>)>>

\* Outputs left by an earlier run: a stylesheet that declares one property,
\* and a metadata file of an earlier version.
OldStylesheet ==
  <<Open(":root"),
    DeclLine(toCssCustomProp(<<"color", "grey", "80">>),
             toScssInterpolation(<<"color", "grey", "80">>), <<>>),
    Close>>

OldMetadata(theme) == [NoMetadata EXCEPT !.theme = theme, !.version = "6.0.0"]

InitialScss(e) ==
  [t \in Range(THEMES) |-> IF e.oldOutputs THEN File(OldStylesheet) ELSE NoFile]

InitialJson(e) ==
  [t \in Range(THEMES) |-> IF e.oldOutputs THEN File(OldMetadata(t)) ELSE NoFile]

EnvInputs ==
  [varsMissing : {{}, {"connect", "portal"}, {"lumen"}, Range(THEMES)},
   sassFails   : {{}, {"lumen", "colt"}, Range(THEMES)},
   oldOutputs  : BOOLEAN]

MainInit ==
  /\ argv \in SeqsUpTo(ArgInputs, MaxArgs)
  /\ env \in EnvInputs
  /\ gPc = "start"
  /\ exitCode = -1
  /\ config = NoConfig
  /\ themeIdx = 1
  /\ scssFiles = InitialScss(env)
  /\ jsonFiles = InitialJson(env)
  /\ allThemesFile = NoFile
  /\ docsCopies = {}
  /\ reads = {}
  /\ writes = {}
  /\ summaries = <<>>
  /\ gLog = <<>>
  /\ BuildIdle
  /\ TokenIdle
  /\ PopIdle

GLine(kind, theme) == [kind |-> kind, theme |-> theme]

\* main up to its loop: parseArgs, the banner, the global variables file.
MainStart ==
  /\ gPc = "start"
  /\ LET r == parseArgs(argv)
     IN IF r.exit # -1
        THEN /\ gPc' = "exited"
             /\ exitCode' = r.exit
             /\ gLog' = gLog \o r.log
             /\ UNCHANGED <<config, reads>>
        ELSE /\ gPc' = "loop"
             /\ config' = [themes |-> r.themes, layers |-> r.layers,
                           jsonOnly |-> r.jsonOnly, dryRun |-> r.dryRun]
             /\ reads' = reads \cup {GLOBAL_VARS_FILE}
             /\ gLog' = Append(gLog \o r.log, GLine("banner", ""))
             /\ UNCHANGED exitCode
  /\ UNCHANGED <<argv, env, themeIdx, scssFiles, jsonFiles, allThemesFile, docsCopies, writes,
                 summaries, buildVars, tokenVars, popVars>>

\* Mutant of ThemeMissing: the missing file ends the loop (break for continue).
ThemeMissingBreak ==
  /\ gPc = "loop"
  /\ themeIdx <= Len(config.themes)
  /\ config.themes[themeIdx] \in env.varsMissing
  /\ gLog' = Append(gLog, GLine("missing", config.themes[themeIdx]))
  /\ themeIdx' = Len(config.themes) + 1
  /\ UNCHANGED <<argv, env, gPc, exitCode, config, scssFiles, jsonFiles, allThemesFile,
                 docsCopies, reads, writes, summaries, buildVars, tokenVars, popVars>>

\* A loop iteration for a theme whose _variables.scss does not exist.
ThemeMissing ==
  /\ gPc = "loop"
  /\ themeIdx <= Len(config.themes)
  /\ config.themes[themeIdx] \in env.varsMissing
  /\ gLog' = Append(gLog, GLine("missing", config.themes[themeIdx]))
  /\ themeIdx' = themeIdx + 1
  /\ UNCHANGED <<argv, env, gPc, exitCode, config, scssFiles, jsonFiles, allThemesFile,
                 docsCopies, reads, writes, summaries, buildVars, tokenVars, popVars>>

\* The custom properties of the compiled CSS of a stylesheet: the --chi-*
\* declarations of its :root blocks (a %placeholder block compiles to nothing).
CompiledProps(scss) ==
  {scss[i].prop : i \in {j \in ChiDecls(scss) : InBlock(scss, j, ":root")}}

\* Mutant of resolveTokenValues: the values found are returned although the
\* compile step failed.
resolveTokenValuesAnyway(file, fails) ==
  IF file.exists THEN CompiledProps(file.content) ELSE {<<"", "", PREFIX>>}

\* resolveTokenValues: the keys of the Map it returns (every value is the
\* non-empty resolved text); a failed compile is caught and leaves it empty.
resolveTokenValues(file, fails) ==
  IF fails \/ ~file.exists THEN {} ELSE CompiledProps(file.content)

ResolvedText == "resolved"

applyResolvedValues(entries, resolvedMap) ==
  [i \in 1..Len(entries) |->
     IF entries[i].cssVariable \in resolvedMap
     THEN [entries[i] EXCEPT !.resolvedValue = ResolvedText]
     ELSE entries[i]]

\* Mutant of WritesScss: --json-only is not consulted.
WritesScssAlways(cfg) == ~cfg.dryRun

\* Whether main writes css-variables.scss
WritesScss(cfg) == ~cfg.dryRun /\ ~cfg.jsonOnly

\* Mutant of WritesJson: --json-only wins over --dry-run.
WritesJsonWhenJsonOnly(cfg) == ~cfg.dryRun \/ cfg.jsonOnly

\* Whether main resolves values and writes dist/tokens/<theme>.json
WritesJson(cfg) == ~cfg.dryRun

\* A loop iteration for a theme whose _variables.scss exists.
ThemeProcessed ==
  /\ gPc = "loop"
  /\ themeIdx <= Len(config.themes)
  /\ config.themes[themeIdx] \notin env.varsMissing
  /\ LET theme      == config.themes[themeIdx]
         globalVars == parseScssVariables(GlobalVarsContent)
         themeVars  == parseScssVariables(ThemeVarsContent)
         out        == generateCssVariablesScss(themeVars, globalVars, theme, config.layers)
         meta       == generateTokenMetadata(themeVars, globalVars, theme, out)
         scssNow    == IF WritesScss(config) THEN File(out.scss) ELSE scssFiles[theme]
         fails      == theme \in env.sassFails \/ ~scssNow.exists
         resolved   == resolveTokenValues(scssNow, fails)
         metaNow    == IF resolved # {}
                       THEN [meta EXCEPT
                               !.tokens.foundation = applyResolvedValues(@, resolved),
                               !.tokens.semantic = applyResolvedValues(@, resolved)]
                       ELSE meta
         logA == Append(gLog, GLine("processing", theme))
         logB == IF WritesScss(config) THEN Append(logA, GLine("writtenScss", theme)) ELSE logA
         logC == IF fails THEN Append(logB, GLine("resolveFailed", theme)) ELSE logB
         logD == IF resolved # {} THEN Append(logC, GLine("resolved", theme)) ELSE logC
     IN /\ summaries' = Append(summaries,
                               [theme |-> theme, foundation |-> out.foundationCount,
                                semantic |-> out.semanticCount, total |-> out.totalCount])
        /\ scssFiles' = [scssFiles EXCEPT ![theme] = scssNow]
        /\ IF WritesJson(config)
           THEN /\ jsonFiles' = [jsonFiles EXCEPT ![theme] = File(metaNow)]
                /\ reads' = reads \cup {VarsFile(theme), ScssPath(theme)}
                /\ writes' = writes \cup {JsonPath(theme)} \cup
                               (IF WritesScss(config) THEN {ScssPath(theme)} ELSE {})
                /\ gLog' = Append(logD, GLine("writtenJson", theme))
           ELSE /\ reads' = reads \cup {VarsFile(theme)}
                /\ gLog' = Append(logA, GLine("dryRunOutput", theme))
                /\ UNCHANGED <<jsonFiles, writes>>
  /\ themeIdx' = themeIdx + 1
  /\ UNCHANGED <<argv, env, gPc, exitCode, config, allThemesFile, docsCopies, buildVars,
                 tokenVars, popVars>>

\* After the loop: the summary table, all-themes.json and the copy of
\* dist/tokens to the documentation repositories that exist.
MainFinish ==
  /\ gPc = "loop"
  /\ themeIdx > Len(config.themes)
  /\ IF ~config.dryRun /\ Len(config.themes) = Len(THEMES)
     THEN \E docs \in SUBSET Range(DOCS_REPOS) :
            LET present == SelectSeq(config.themes, LAMBDA t : jsonFiles[t].exists)
                files   == {JsonPath(t) : t \in {u \in Range(THEMES) : jsonFiles[u].exists}}
                             \cup {AllThemesPath}
            IN /\ allThemesFile' =
                    File([i \in 1..Len(present) |->
                            [theme |-> present[i], meta |-> jsonFiles[present[i]].content]])
               /\ reads' = reads \cup {JsonPath(t) : t \in Range(present)}
               /\ writes' = writes \cup {AllThemesPath}
               /\ docsCopies' = docsCopies \cup {<<d, f>> : d \in docs, f \in files}
               /\ gLog' = gLog \o <<GLine("summary", ""), GLine("consolidated", "")>> \o
                            SelectSeq([i \in 1..Len(DOCS_REPOS) |-> GLine("synced", DOCS_REPOS[i])],
                                      LAMBDA l : l.theme \in docs) \o
                            <<GLine("done", "")>>
     ELSE /\ gLog' = gLog \o <<GLine("summary", ""), GLine("done", "")>>
          /\ UNCHANGED <<allThemesFile, reads, writes, docsCopies>>
  /\ gPc' = "done"
  /\ UNCHANGED <<argv, env, exitCode, config, themeIdx, scssFiles, jsonFiles, summaries,
                 buildVars, tokenVars, popVars>>

MainNext == MainStart \/ ThemeMissing \/ ThemeProcessed \/ MainFinish

SpecMain == MainInit /\ [][MainNext]_vars

\* ---- reading a run of main ----
Logged(kind, theme) == \E k \in 1..Len(gLog) : gLog[k] = GLine(kind, theme)

HasSummary(theme) == \E k \in 1..Len(summaries) : summaries[k].theme = theme

HasArg(flag) == \E i \in 1..Len(argv) : argv[i] = Arg(flag, <<>>)

FilesUntouched ==
  /\ scssFiles = InitialScss(env)
  /\ jsonFiles = InitialJson(env)
  /\ allThemesFile = NoFile
  /\ writes = {}
  /\ docsCopies = {}

\* dist/tokens/<theme>.json holds the metadata this run generated.
JsonWritten(theme) ==
  /\ JsonPath(theme) \in writes
  /\ jsonFiles[theme].exists
  /\ jsonFiles[theme].content.theme = theme
  /\ jsonFiles[theme].content.version = "7.0.0"

\* ---- C2 ----
\* C2: when main has run to its end, every selected theme whose
\* _variables.scss does not exist has a warning logged, no stylesheet and no
\* JSON file written and no summary row, and every other selected theme has
\* been processed.
C2_MissingVariablesFileSkipped ==
  gPc = "done" =>
    \A i \in 1..Len(config.themes) :
      LET t == config.themes[i]
      IN IF t \in env.varsMissing
         THEN /\ Logged("missing", t)
              /\ ScssPath(t) \notin writes
              /\ JsonPath(t) \notin writes
              /\ scssFiles[t] = InitialScss(env)[t]
              /\ jsonFiles[t] = InitialJson(env)[t]
              /\ ~HasSummary(t)
         ELSE /\ Logged("processing", t)
              /\ HasSummary(t)
              /\ ~config.dryRun => JsonWritten(t)

\* A finished run in which a theme without variables file is followed by a
\* theme that has one.
C2_Witness ==
  /\ gPc = "done"
  /\ \E i, j \in 1..Len(config.themes) :
       /\ i < j
       /\ config.themes[i] \in env.varsMissing
       /\ config.themes[j] \notin env.varsMissing
       /\ HasSummary(config.themes[j])

\* ---- C3 ----
\* C3: when the compile of a theme's stylesheet fails, a warning is logged, the
\* theme's JSON file is still written with every resolvedValue empty, and the
\* remaining themes are still processed.
C3_CompileFailureKeepsJson ==
  (gPc = "done" /\ ~config.dryRun) =>
    \A i \in 1..Len(config.themes) :
      LET t == config.themes[i]
      IN (t \in env.sassFails /\ t \notin env.varsMissing) =>
           /\ Logged("resolveFailed", t)
           /\ ~Logged("resolved", t)
           /\ JsonWritten(t)
           /\ \A k \in 1..Len(jsonFiles[t].content.tokens.foundation) :
                jsonFiles[t].content.tokens.foundation[k].resolvedValue = ""
           /\ \A k \in 1..Len(jsonFiles[t].content.tokens.semantic) :
                jsonFiles[t].content.tokens.semantic[k].resolvedValue = ""
           /\ \A j \in (i + 1)..Len(config.themes) :
                config.themes[j] \notin env.varsMissing =>
                  HasSummary(config.themes[j]) /\ JsonWritten(config.themes[j])

\* A finished run in which the compile failed for a theme whose stylesheet
\* declares properties, and a later theme was resolved.
C3_Witness ==
  /\ gPc = "done"
  /\ \E i, j \in 1..Len(config.themes) :
       /\ i < j
       /\ Logged("resolveFailed", config.themes[i])
       /\ scssFiles[config.themes[i]].exists
       /\ ChiDecls(scssFiles[config.themes[i]].content) # {}
       /\ Logged("resolved", config.themes[j])

\* ---- C4 ----
\* The text between the first '=' of a --theme= argument and its next '=' (or
\* its end) is not in THEMES.
UnknownUpToNextEquals(arg) ==
  /\ arg.flag = "--theme"
  /\ Len(arg.parts) >= 1
  /\ (Len(arg.parts[1]) # 1 \/ arg.parts[1][1] \notin Range(THEMES))

HelpArg(arg) == arg = Arg("--help", <<>>) \/ arg = Arg("-h", <<>>)

\* C4 (as stated): if any --theme=<name> argument names a theme that is not in
\* THEMES, the generator exits with status 1 before any file is read or written.
C4_UnknownThemeExits1 ==
  (gPc # "start" /\ \E i \in 1..Len(argv) : UnknownUpToNextEquals(argv[i])) =>
    /\ gPc = "exited"
    /\ exitCode = 1
    /\ reads = {}
    /\ FilesUntouched

\* C4 (amended): if for some --theme= argument the text between its first '='
\* and its next '=' is not in THEMES, the generator exits during argument
\* parsing, before any file is read or written: with status 1 when no --help
\* or -h stands before the first such argument, with status 0 otherwise.
C4_UnknownThemeExits ==
  gPc # "start" =>
    \A i \in 1..Len(argv) :
      (/\ UnknownUpToNextEquals(argv[i])
       /\ \A j \in 1..(i - 1) : ~UnknownUpToNextEquals(argv[j])) =>
        /\ gPc = "exited"
        /\ exitCode = IF \E j \in 1..(i - 1) : HelpArg(argv[j]) THEN 0 ELSE 1
        /\ reads = {}
        /\ FilesUntouched

\* The generator has exited with status 1 on an unknown theme that follows
\* another argument.
C4_Witness ==
  /\ gPc = "exited"
  /\ exitCode = 1
  /\ Len(argv) = 2
  /\ argv[1] = Arg("--json-only", <<>>)
  /\ argv[2] = Arg("--theme", << <<"bogus">> >>)

\* ---- C7 ----
\* C7: with --dry-run no file is written: no css-variables.scss, no
\* dist/tokens/<theme>.json, no all-themes.json, no copy to a documentation
\* repository, also together with --json-only.
C7_DryRunWritesNothing == HasArg("--dry-run") => FilesUntouched

\* A finished run with --dry-run and --json-only that processed a theme.
C7_Witness ==
  /\ gPc = "done"
  /\ HasArg("--dry-run")
  /\ HasArg("--json-only")
  /\ summaries # <<>>

\* ---- C8 ----
\* C8: with --json-only and without --dry-run every theme's css-variables.scss
\* is left as it was and dist/tokens/<theme>.json is written for every selected
\* theme whose variables file exists.
C8_JsonOnlyKeepsScss ==
  (gPc = "done" /\ HasArg("--json-only") /\ ~HasArg("--dry-run")) =>
    /\ scssFiles = InitialScss(env)
    /\ \A t \in Range(THEMES) : ScssPath(t) \notin writes
    /\ \A i \in 1..Len(config.themes) :
         config.themes[i] \notin env.varsMissing => JsonWritten(config.themes[i])

\* A finished --json-only run that processed a theme.
C8_Witness ==
  /\ gPc = "done"
  /\ HasArg("--json-only")
  /\ ~HasArg("--dry-run")
  /\ summaries # <<>>
  /\ \E t \in Range(THEMES) : JsonPath(t) \in writes

\* ===========================================================================
\* Popover: show / hide / toggle / resetPosition, the position computations
\* they start and the animations that follow.
\*
\* A computePosition promise resolves at any later time, with any result; the
\* continuation show() chains to it runs in the same step.  The click handlers
\* and dispose() are left out.
\* ===========================================================================
CLASS_POPOVER == "chi-popover"

ACTIVE == "-active"

TRANSITIONING == "-transitioning"

ANIMATED == "-animated"

EVENTS ==
  [key \in {"SHOW_DEPRECATED", "HIDE_DEPRECATED", "SHOW", "HIDE", "SHOWN", "HIDDEN"} |->
     CASE key = "SHOW_DEPRECATED" -> "chi.popover.show"
       [] key = "HIDE_DEPRECATED" -> "chi.popover.hide"
       [] key = "SHOW" -> "chiPopoverShow"
       [] key = "HIDE" -> "chiPopoverHide"
       [] key = "SHOWN" -> "chiPopoverShown"
       [] key = "HIDDEN" -> "chiPopoverHidden"]

\* EVENTS[key] as JavaScript reads it: a key the object lacks gives undefined
EventName(key) == IF key \in DOMAIN EVENTS THEN EVENTS[key] ELSE "undefined"

\* DEFAULT_CONFIG.delayBetweenInteractions
delayBetweenInteractions == 50

Sides == {"top", "bottom", "left", "right"}

PlacementClass == [top |-> "chi-popover--top", bottom |-> "chi-popover--bottom",
                   left |-> "chi-popover--left", right |-> "chi-popover--right"]

OPPOSITE_SIDE == [top |-> "bottom", right |-> "left", bottom |-> "top", left |-> "right"]

\* Bounds: calls of show / hide / toggle / resetPosition, and clock ticks.
MaxCalls == 2

MaxTicks == 2

\* What computePosition may resolve to: x, y, the placement in its
\* '-'-separated segments, and whether middlewareData.arrow is there.
PositionResults ==
  {[x |-> "0px", y |-> "4px", placement |-> <<"top">>, arrow |-> TRUE],
   [x |-> "8px", y |-> "4px", placement |-> <<"bottom", "start">>, arrow |-> FALSE],
   [x |-> "8px", y |-> "16px", placement |-> <<"left">>, arrow |-> TRUE]}

PopInit ==
  /\ animate \in BOOLEAN
  /\ shown = FALSE
  /\ classes = {CLASS_POPOVER} \cup (IF animate THEN {ANIMATED} ELSE {})
  /\ ariaHidden = "true"
  /\ style = NoStyle
  /\ arrowStyle = NoArrowStyle
  /\ preAnimationTransformStyle = "null"
  /\ postAnimationTransformStyle = "null"
  /\ positions = {[id |-> 1, thenShow |-> FALSE, transition |-> ""]}
  /\ resolvedLog = <<>>
  /\ anims = {}
  /\ events = <<>>
  /\ lastActioned = 0
  /\ now = 1
  /\ calls = 1
  /\ BuildIdle
  /\ TokenIdle
  /\ MainIdle

\* allowConsecutiveActions: its result and the lastActioned it leaves
allowConsecutiveActions ==
  IF lastActioned = 0 THEN [allow |-> TRUE, last |-> now]
  ELSE IF now - lastActioned > delayBetweenInteractions THEN [allow |-> TRUE, last |-> now]
  ELSE [allow |-> FALSE, last |-> lastActioned]

\* Mutant of ShowBody: allowConsecutiveActions is consulted before _shown.
ShowBodyDelayFirst(force) ==
  LET a == allowConsecutiveActions
  IN /\ lastActioned' = a.last
     /\ IF shown \/ (~a.allow /\ ~force)
        THEN UNCHANGED <<shown, classes, ariaHidden, style, positions, anims, events>>
        ELSE /\ shown' = TRUE
             /\ events' = events \o <<EventName("SHOW_DEPRECATED"), EventName("SHOW")>>
             /\ IF ~animate
                THEN /\ classes' = classes \cup {ACTIVE}
                     /\ ariaHidden' = "false"
                     /\ UNCHANGED <<style, positions>>
                ELSE /\ style' = [style EXCEPT !.transition = "none"]
                     /\ classes' = classes \cup {TRANSITIONING}
                     /\ positions' = positions \cup
                          {[id |-> calls + 1, thenShow |-> TRUE,
                            transition |-> style.transition]}
                     /\ UNCHANGED ariaHidden
             /\ UNCHANGED anims

\* show(force)
ShowBody(force) ==
  IF shown
  THEN UNCHANGED <<shown, classes, ariaHidden, style, positions, anims, events, lastActioned>>
  ELSE LET a == allowConsecutiveActions
       IN /\ lastActioned' = a.last
          /\ IF ~a.allow /\ ~force
             THEN UNCHANGED <<shown, classes, ariaHidden, style, positions, anims, events>>
             ELSE /\ shown' = TRUE
                  /\ events' = events \o <<EventName("SHOW_DEPRECATED"), EventName("SHOW")>>
                  /\ IF ~animate
                     THEN /\ classes' = classes \cup {ACTIVE}
                          /\ ariaHidden' = "false"
                          /\ UNCHANGED <<style, positions>>
                     ELSE /\ style' = [style EXCEPT !.transition = "none"]
                          /\ classes' = classes \cup {TRANSITIONING}
                          /\ positions' = positions \cup
                               {[id |-> calls + 1, thenShow |-> TRUE,
                                 transition |-> style.transition]}
                          /\ UNCHANGED ariaHidden
                  /\ UNCHANGED anims

\* hide(force)
HideBody(force) ==
  IF ~shown
  THEN UNCHANGED <<shown, classes, ariaHidden, style, positions, anims, events, lastActioned>>
  ELSE LET a == allowConsecutiveActions
       IN /\ lastActioned' = a.last
          /\ IF ~a.allow /\ ~force
             THEN UNCHANGED <<shown, classes, ariaHidden, style, positions, anims, events>>
             ELSE /\ shown' = FALSE
                  /\ events' = events \o <<EventName("HIDE_DEPRECATED"), EventName("HIDE")>>
                  /\ IF ~animate
                     THEN /\ classes' = classes \ {ACTIVE}
                          /\ ariaHidden' = "true"
                          /\ UNCHANGED anims
                     ELSE /\ anims' = anims \cup
                               {[id |-> calls + 1, kind |-> "hide", step |-> 1,
                                 transition |-> ""]}
                          /\ UNCHANGED <<classes, ariaHidden>>
                  /\ UNCHANGED <<style, positions>>

PopCallFrame ==
  /\ calls < MaxCalls + 1
  /\ calls' = calls + 1
  /\ UNCHANGED <<animate, arrowStyle, preAnimationTransformStyle, postAnimationTransformStyle,
                 resolvedLog, now, buildVars, tokenVars, mainVars>>

Show == \E force \in BOOLEAN : PopCallFrame /\ ShowBody(force)

Hide == \E force \in BOOLEAN : PopCallFrame /\ HideBody(force)

Toggle == PopCallFrame /\ IF shown THEN HideBody(FALSE) ELSE ShowBody(FALSE)

\* resetPosition(): starts a computation and drops its promise
ResetPosition ==
  /\ PopCallFrame
  /\ positions' = positions \cup {[id |-> calls + 1, thenShow |-> FALSE, transition |-> ""]}
  /\ UNCHANGED <<shown, classes, ariaHidden, style, anims, events, lastActioned>>

PreTransformOf(basePlacement) ==
  IF basePlacement = "top" THEN "translate3d(0, 20px, 0)"
  ELSE IF basePlacement = "right" THEN "translate3d(-20px, 0, 0)"
  ELSE IF basePlacement = "bottom" THEN "translate3d(0, -20px, 0)"
  ELSE IF basePlacement = "left" THEN "translate3d(20px, 0, 0)"
  ELSE "none"

\* The class list after the then-callback of _updatePosition
PlacementClasses(cls, basePlacement) ==
  (cls \ {PlacementClass[side] : side \in Sides}) \cup {PlacementClass[basePlacement]}

\* Mutant of ResolvePosition: a computation that resolves after a later-started
\* one has resolved writes nothing.
ResolvePositionLatestOnly ==
  \E p \in positions, r \in PositionResults :
    LET basePlacement == r.placement[1]
        stale == \E i \in DOMAIN resolvedLog : resolvedLog[i].id > p.id
    IN /\ positions' = positions \ {p}
       /\ resolvedLog' = Append(resolvedLog, [id |-> p.id, result |-> r])
       /\ style' = IF stale THEN style
                   ELSE [style EXCEPT !.position = "absolute", !.left = r.x, !.top = r.y]
       /\ classes' = IF stale THEN classes ELSE PlacementClasses(classes, basePlacement)
       /\ arrowStyle' = IF r.arrow /\ ~stale
                        THEN [static |-> OPPOSITE_SIDE[basePlacement], clip |-> basePlacement]
                        ELSE arrowStyle
       /\ postAnimationTransformStyle' = "none"
       /\ preAnimationTransformStyle' =
            IF stale THEN preAnimationTransformStyle ELSE PreTransformOf(basePlacement)
       /\ anims' = IF p.thenShow
                   THEN anims \cup {[id |-> p.id, kind |-> "show", step |-> 1,
                                     transition |-> p.transition]}
                   ELSE anims
       /\ UNCHANGED <<animate, shown, ariaHidden, events, lastActioned, now, calls, buildVars,
                      tokenVars, mainVars>>

\* A computePosition promise resolves: the then-callback of _updatePosition,
\* and after it the continuation of show() that starts the animation.
ResolvePosition ==
  \E p \in positions, r \in PositionResults :
    LET basePlacement == r.placement[1]
    IN /\ positions' = positions \ {p}
       /\ resolvedLog' = Append(resolvedLog, [id |-> p.id, result |-> r])
       /\ style' = [style EXCEPT !.position = "absolute", !.left = r.x, !.top = r.y]
       /\ classes' = PlacementClasses(classes, basePlacement)
       /\ arrowStyle' = IF r.arrow
                        THEN [static |-> OPPOSITE_SIDE[basePlacement], clip |-> basePlacement]
                        ELSE arrowStyle
       /\ postAnimationTransformStyle' = "none"
       /\ preAnimationTransformStyle' = PreTransformOf(basePlacement)
       /\ anims' = IF p.thenShow
                   THEN anims \cup {[id |-> p.id, kind |-> "show", step |-> 1,
                                     transition |-> p.transition]}
                   ELSE anims
       /\ UNCHANGED <<animate, shown, ariaHidden, events, lastActioned, now, calls, buildVars,
                      tokenVars, mainVars>>

\* The next step of a three-step animation (Util.threeStepsAnimation runs its
\* three callbacks in order, each at a later time).
AnimStep ==
  \E a \in anims :
    /\ anims' = IF a.step = 3 THEN anims \ {a}
                ELSE (anims \ {a}) \cup {[a EXCEPT !.step = a.step + 1]}
    /\ IF a.kind = "show"
       THEN IF a.step = 1
            THEN /\ style' = [style EXCEPT !.transform = preAnimationTransformStyle]
                 /\ UNCHANGED <<classes, ariaHidden, events>>
            ELSE IF a.step = 2
            THEN /\ classes' = classes \cup {ACTIVE}
                 /\ style' = [style EXCEPT !.transition = a.transition,
                                           !.transform = postAnimationTransformStyle]
                 /\ UNCHANGED <<ariaHidden, events>>
            ELSE /\ classes' = classes \ {TRANSITIONING}
                 /\ ariaHidden' = "false"
                 /\ events' = Append(events, EventName("shown"))
                 /\ UNCHANGED style
       ELSE IF a.step = 1
            THEN /\ classes' = classes \cup {TRANSITIONING}
                 /\ UNCHANGED <<style, ariaHidden, events>>
            ELSE IF a.step = 2
            THEN /\ style' = [style EXCEPT !.transform = preAnimationTransformStyle]
                 /\ classes' = classes \ {ACTIVE}
                 /\ UNCHANGED <<ariaHidden, events>>
            ELSE /\ classes' = classes \ {TRANSITIONING}
                 /\ ariaHidden' = "true"
                 /\ events' = Append(events, EventName("HIDDEN"))
                 /\ UNCHANGED style
    /\ UNCHANGED <<animate, shown, arrowStyle, preAnimationTransformStyle,
                   postAnimationTransformStyle, positions, resolvedLog, lastActioned, now, calls,
                   buildVars, tokenVars, mainVars>>

\* Time passes.
Tick ==
  /\ now < 1 + MaxTicks * 30
  /\ now' = now + 30
  /\ UNCHANGED <<animate, shown, classes, ariaHidden, style, arrowStyle,
                 preAnimationTransformStyle, postAnimationTransformStyle, positions, resolvedLog,
                 anims, events, lastActioned, calls, buildVars, tokenVars, mainVars>>

PopNext == Show \/ Hide \/ Toggle \/ ResetPosition \/ ResolvePosition \/ AnimStep \/ Tick

SpecPopover == PopInit /\ [][PopNext]_vars

\* ---------------------------------------------------------------------------
\* Claims about the popover
\* ---------------------------------------------------------------------------
PlacementClassesOf(cls) == cls \cap {PlacementClass[side] : side \in Sides}

LastResolved == resolvedLog[Len(resolvedLog)]

\* What the computation that resolved last wrote is what the popover carries.
LastWriteStands ==
  (positions = {} /\ resolvedLog # <<>>) =>
    LET r == LastResolved.result
    IN /\ style.left = r.x
       /\ style.top = r.y
       /\ PlacementClassesOf(classes) = {PlacementClass[r.placement[1]]}
       /\ preAnimationTransformStyle = PreTransformOf(r.placement[1])

\* A computation leaves the ones in flight only by resolving, and no call
\* takes a computation in flight away.
NoneCancelled ==
  \A p \in positions \ positions' :
    /\ positions' = positions \ {p}
    /\ Len(resolvedLog') = Len(resolvedLog) + 1
    /\ resolvedLog'[Len(resolvedLog')].id = p.id

\* C6: position computation is last-write-wins.  Of the computations in
\* flight at once none is cancelled, and once all have resolved the popover's
\* left/top, its placement class and its pre-animation transform are those of
\* the computation that resolved last, whatever the order they started in.
C6_LastWriteWins == [](LastWriteStands) /\ [][NoneCancelled]_vars

\* Two computations were in flight at once, the later-started one resolved
\* first, the earlier-started one resolved last with another result, and
\* nothing is in flight any more.
C6_Witness ==
  /\ positions = {}
  /\ Len(resolvedLog) >= 2
  /\ \E i \in 1..(Len(resolvedLog) - 1) :
       /\ resolvedLog[i].id > LastResolved.id
       /\ resolvedLog[i].result.placement[1] # LastResolved.result.placement[1]
       /\ resolvedLog[i].result.x # LastResolved.result.x

\* ---- C16 ----
ShowEvents == <<"chi.popover.show", "chiPopoverShow">>

HideEvents == <<"chi.popover.hide", "chiPopoverHide">>

\* The events a step dispatches.
Dispatched == SubSeq(events', Len(events) + 1, Len(events'))

ElementUnchanged == UNCHANGED <<classes, ariaHidden, style>>

\* C16: show() on a shown popover and hide() on a popover that is not shown
\* change nothing: not _shown, not the events dispatched, no class or
\* attribute of the element, not lastActioned.  A call that flips _shown
\* dispatches the deprecated event and then the current one, once each, and
\* these events are dispatched by no other step.
C16_NoOpsAndEvents ==
  [][/\ (Show /\ shown) =>
          (UNCHANGED <<shown, events, lastActioned>> /\ ElementUnchanged)
     /\ (Hide /\ ~shown) =>
          (UNCHANGED <<shown, events, lastActioned>> /\ ElementUnchanged)
     /\ (shown' # shown) =>
          (Dispatched = IF shown' THEN ShowEvents ELSE HideEvents)
     /\ (shown' = shown) =>
          \A i \in 1..Len(Dispatched) : Dispatched[i] \notin Range(ShowEvents \o HideEvents)]_vars

\* Two calls were made at the same instant, the first a show() that took
\* effect; the second, a show() on the shown popover, left everything as it
\* was: one pair of events, no further computation started, still shown.
C16_Witness ==
  /\ shown
  /\ calls = 3
  /\ events = ShowEvents
  /\ lastActioned = now
  /\ \A p \in positions : p.id = 1 \/ (p.id = 2 /\ p.thenShow)
  /\ Len(resolvedLog) = 0
  /\ anims = {}

\* ---- C17 ----
\* C17: once no position computation and no animation step is pending, the
\* element has the ACTIVE class and aria-hidden 'false' if and only if _shown
\* is true, and it does not have the TRANSITIONING class, whatever the
\* interleaving of the calls with the computations and the animation steps.
C17_VisibleAgreesWithShown ==
  (positions = {} /\ anims = {}) =>
    /\ (ACTIVE \in classes /\ ariaHidden = "false") <=> shown
    /\ TRANSITIONING \notin classes

====
